---- MODULE Spec2Model ----
(***************************************************************************)
(* Model of src/solution.js: the brute-force knapsack pipeline             *)
(*   knapsack(items, maximumWeight)                                        *)
(* built from calculateBenefit, sortByBenefit, sortedCombinations,         *)
(* calculateTotalBenefit, filterByWeight and sortByTotalBenefit.           *)
(*                                                                         *)
(* JavaScript numbers are modelled as records [k, v]:                      *)
(*   k = "fin": the exact rational v / Denom                               *)
(*   k = "inf": +Infinity (v = 1) or -Infinity (v = -1)                    *)
(*   k = "nan": NaN                                                        *)
(* Denom is a common multiple of every weight of the input domain, so that *)
(* benefit / weight is represented exactly.  The rounding of IEEE doubles  *)
(* is not modelled: sums of ratios are exact rationals.  The sign of zero  *)
(* is not modelled either (a ratio -0 is never observable: it compares and *)
(* adds like 0 and the ratio is stripped from the output).                 *)
(*                                                                         *)
(* JavaScript arrays are 0-based, TLA+ sequences 1-based: item[i] in the   *)
(* source is item[i + 1] here.                                             *)
(***************************************************************************)
EXTENDS Integers, Sequences, FiniteSets

VARIABLES items, maximumWeight, pc, ranked, combinations, results, winner, returned, thrown

vars == <<items, maximumWeight, pc, ranked, combinations, results, winner, returned, thrown>>

\* ---------------------------------------------------------------- bounds
MaxN == 2
MaxWeight == 2
MaxBenefit == 2
MaxCapacity == 2

\* The capacity of the first example of src/README.md.
ReadmeCapacity == 12

\* ---------------------------------------------------------------- numbers
Max(a, b) == IF a >= b THEN a ELSE b

Abs(n) == IF n < 0 THEN 0 - n ELSE n

RECURSIVE Gcd(_, _)
Gcd(a, b) == IF b = 0 THEN a ELSE Gcd(b, a % b)

RECURSIVE LcmUpTo(_)
LcmUpTo(n) == IF n <= 1 THEN 1 ELSE LET l == LcmUpTo(n - 1) IN (l * n) \div Gcd(l, n)

\* The README collection has weights up to 4.
Denom == LcmUpTo(Max(MaxWeight, 4))

Fin(n) == [k |-> "fin", v |-> n]
Num(n) == Fin(n * Denom)
Infinity == [k |-> "inf", v |-> 1]
NegInfinity == [k |-> "inf", v |-> 0 - 1]
NaN == [k |-> "nan", v |-> 0]
Undefined == [k |-> "undefined", v |-> 0]

SignOf(n) == IF n > 0 THEN 1 ELSE IF n < 0 THEN 0 - 1 ELSE 0

\* a + b
Add(a, b) ==
    IF a.k = "nan" \/ b.k = "nan" THEN NaN
    ELSE IF a.k = "inf" /\ b.k = "inf" THEN (IF a.v = b.v THEN a ELSE NaN)
    ELSE IF a.k = "inf" THEN a
    ELSE IF b.k = "inf" THEN b
    ELSE Fin(a.v + b.v)

Neg(a) == IF a.k = "nan" THEN NaN ELSE [k |-> a.k, v |-> 0 - a.v]

\* a - b
Sub(a, b) == Add(a, Neg(b))

\* a / b
Div(a, b) ==
    IF a.k = "nan" \/ b.k = "nan" THEN NaN
    ELSE IF a.k = "inf" /\ b.k = "inf" THEN NaN
    ELSE IF a.k = "inf" THEN [k |-> "inf", v |-> IF SignOf(b.v) < 0 THEN 0 - a.v ELSE a.v]
    ELSE IF b.k = "inf" THEN Fin(0)
    ELSE IF b.v = 0 THEN
        (IF a.v > 0 THEN Infinity ELSE IF a.v < 0 THEN NegInfinity ELSE NaN)
    ELSE Fin(SignOf(a.v) * SignOf(b.v) * ((Abs(a.v) * Denom) \div Abs(b.v)))

\* a <= b
LessEq(a, b) ==
    IF a.k = "nan" \/ b.k = "nan" THEN FALSE
    ELSE IF a.k = "inf" THEN (a.v < 0 \/ (b.k = "inf" /\ b.v > 0))
    ELSE IF b.k = "inf" THEN b.v > 0
    ELSE a.v <= b.v

\* ToBoolean of a number: 0 and NaN are falsy.
Truthy(a) == ~(a.k = "nan" \/ (a.k = "fin" /\ a.v = 0))

\* a || b
Or(a, b) == IF Truthy(a) THEN a ELSE b

\* The sign Array.prototype.sort reads off a comparator's result: negative,
\* zero or positive, NaN counting as +0.
CompareSign(a) == IF a.k = "nan" THEN 0 ELSE SignOf(a.v)

\* ---------------------------------------------------------------- solution.js
\* [item[1] / item[0], ...item]
calculateBenefit(item) == <<Div(item[2], item[1])>> \o item

\* Faulty variant: ascending ratio.
sortByBenefitAscending(left, right) == Or(Sub(left[1], right[1]), Sub(right[2], left[2]))

\* Faulty variant: no tie-break on the weight.
sortByBenefitNoTieBreak(left, right) == Sub(right[1], left[1])

\* right[0] - left[0] || right[1] - left[1]
sortByBenefit(left, right) == Or(Sub(right[1], left[1]), Sub(right[2], left[2]))

\* permute(left, right): the arrays this call pushes to the shared accumulator
\* result, in the order of the pushes.
RECURSIVE permute(_, _)
permute(left, right) ==
    IF Len(right) = 0 THEN <<left>>
    ELSE LET include == Append(left, right[1])
             exclude == left
         IN  permute(include, Tail(right)) \o permute(exclude, Tail(right))

\* Faulty variant: the exclude branch taken before the include branch.
RECURSIVE permuteExcludeFirst(_, _)
permuteExcludeFirst(left, right) ==
    IF Len(right) = 0 THEN <<left>>
    ELSE permuteExcludeFirst(left, Tail(right))
            \o permuteExcludeFirst(Append(left, right[1]), Tail(right))

sortedCombinationsExcludeFirst(a) == permuteExcludeFirst(<<>>, a)

\* Faulty variant: exclude aliased to include.
RECURSIVE permuteAliased(_, _)
permuteAliased(left, right) ==
    IF Len(right) = 0 THEN <<left>>
    ELSE permuteAliased(Append(left, right[1]), Tail(right))
            \o permuteAliased(Append(left, right[1]), Tail(right))

sortedCombinationsAliased(a) == permuteAliased(<<>>, a)

\* result after permute([], items)
sortedCombinations(a) == permute(<<>>, a)

\* item.reduce((total, current) => total + current[i], 0), i 0-based
RECURSIVE ReduceSum(_, _)
ReduceSum(item, i) ==
    IF Len(item) = 0 THEN Num(0)
    ELSE Add(ReduceSum(SubSeq(item, 1, Len(item) - 1), i), item[Len(item)][i + 1])

\* Faulty variant: the first total sums current[2], the benefits.
calculateTotalBenefitOfBenefits(item) == <<ReduceSum(item, 2), ReduceSum(item, 1)>> \o item

calculateTotalBenefit(item) == <<ReduceSum(item, 0), ReduceSum(item, 1)>> \o item

\* Faulty variant: the filter reads item[0], the summed ratio.
filterByRatio(threshold, item) ==
    LessEq(item[1], IF threshold = Undefined THEN Infinity ELSE threshold)

\* filterByWeight(threshold = Infinity)(item)
filterByWeight(threshold, item) ==
    LessEq(item[2], IF threshold = Undefined THEN Infinity ELSE threshold)

\* Faulty variant: ascending total.
sortByTotalBenefitAscending(left, right) == Sub(left[1], right[1])

\* Faulty variant: ties broken by ascending total weight.
sortByTotalBenefitLightFirst(left, right) == Or(Sub(right[1], left[1]), Sub(left[2], right[2]))

\* right[0] - left[0]
sortByTotalBenefit(left, right) == Sub(right[1], left[1])

\* results[0].slice(2).map(item => item.slice(1))
Unwrap(first) == [i \in 1..(Len(first) - 2) |-> SubSeq(first[i + 2], 2, 3)]

\* ---------------------------------------------------------------- arrays
\* A function passed as a callback is named by a string.
Apply(fn, x) ==
    IF fn = "calculateBenefit" THEN calculateBenefit(x) ELSE calculateTotalBenefit(x)

Compare(fn, left, right) ==
    IF fn = "sortByBenefit" THEN sortByBenefit(left, right)
    ELSE sortByTotalBenefit(left, right)

Range(a) == {a[i] : i \in 1..Len(a)}

\* Faulty variant: the mapped values written back into the receiver.
ArrayMapInPlace(fn, a) == [ref |-> "receiver", elems |-> [i \in 1..Len(a) |-> Apply(fn, a[i])]]

\* Array.prototype.map: a fresh array holding fn of every element; the
\* receiver is not written.  ref tells whether the returned array is a new
\* object or the receiver itself.
ArrayMap(fn, a) == [ref |-> "fresh", elems |-> [i \in 1..Len(a) |-> Apply(fn, a[i])]]

\* The sign Array.prototype.sort reads off the comparator: negative, zero or
\* positive, NaN counting as +0.
Order(fn, x, y) == CompareSign(Compare(fn, x, y))

\* A consistent comparator over the values S (ECMAScript, Array.prototype.sort).
Consistent(fn, S) ==
    /\ \A x \in S : Order(fn, x, x) = 0
    /\ \A x, y \in S : Order(fn, x, y) = 0 - Order(fn, y, x)
    /\ \A x, y \in S :
          Order(fn, x, y) <= 0 =>
             \A z \in S :
                /\ (Order(fn, x, y) = 0 /\ Order(fn, y, z) = 0) => Order(fn, x, z) = 0
                /\ (Order(fn, x, y) < 0 /\ Order(fn, y, z) < 0) => Order(fn, x, z) < 0

\* The stable sort of a under a consistent comparator: element i is preceded
\* by the elements that sort before it and by the equal ones ahead of it in a.
StableSort(fn, a) ==
    LET n == Len(a)
        before == [i \in 1..n |->
                     Cardinality({j \in 1..n :
                         LET o == Order(fn, a[j], a[i]) IN o < 0 \/ (o = 0 /\ j < i)})]
    IN  [p \in 1..n |-> a[CHOOSE i \in 1..n : before[i] = p - 1]]

Permutations(a) ==
    {[i \in 1..Len(a) |-> a[p[i]]] :
        p \in {f \in [1..Len(a) -> 1..Len(a)] : \A i, j \in 1..Len(a) : f[i] = f[j] => i = j}}

MoveToFront(a, i) == <<a[i]>> \o SubSeq(a, 1, i - 1) \o SubSeq(a, i + 1, Len(a))

\* Array.prototype.sort, the orders it may leave the array in: the stable
\* order when the comparator is consistent over the elements, an
\* implementation-defined order otherwise.
ArraySort(fn, a) ==
    IF Consistent(fn, Range(a)) THEN {StableSort(fn, a)} ELSE Permutations(a)

\* The same for an array of which the caller reads element 0 only: under an
\* inconsistent comparator any element may come first (the others are kept
\* in their order).
ArraySortFirst(fn, a) ==
    IF Consistent(fn, Range(a)) THEN {StableSort(fn, a)}
    ELSE {MoveToFront(a, i) : i \in 1..Len(a)}

\* Array.prototype.filter with the closure filterByWeight(threshold).
ArrayFilter(threshold, a) == SelectSeq(a, LAMBDA item : filterByWeight(threshold, item))

\* ---------------------------------------------------------------- inputs
Pair(w, b) == <<Num(w), Num(b)>>

\* The collection of src/solution.js and src/README.md.
Collection == <<Pair(1, 1), Pair(2, 1), Pair(3, 2), Pair(3, 5), Pair(4, 2), Pair(4, 5)>>

\* Items the caller may pass: every pair of a positive weight and a benefit
\* within the bounds, and three pairs of a weight that is not positive, whose
\* ratios are NaN, Infinity and a negative number.
ItemDomain ==
    {Pair(w, b) : w \in 1..MaxWeight, b \in 0..MaxBenefit}
        \cup {Pair(0, 0), Pair(0, 1), Pair(0 - 1, 1)}

Inputs == UNION {[1..n -> ItemDomain] : n \in 0..MaxN}

\* A capacity, or undefined when the caller omits it.
Capacities == {Num(c) : c \in (0 - 1)..MaxCapacity} \cup {Undefined}

\* The capacities tried with the collection: those of the examples of
\* src/README.md, and 7, at which the greatest sum of ratios and the greatest
\* total benefit select different subsets.
CollectionCapacities == {Num(ReadmeCapacity), Num(1), Num(2), Num(3), Num(7), Undefined}

\* ---------------------------------------------------------------- knapsack
Init ==
    /\ \/ items \in Inputs /\ maximumWeight \in Capacities
       \/ items = Collection /\ maximumWeight \in CollectionCapacities
    /\ pc = "l48"
    /\ ranked = <<>>
    /\ combinations = <<>>
    /\ results = <<>>
    /\ winner = <<>>
    /\ returned = <<>>
    /\ thrown = "none"

\* const combinations = sortedCombinations(items.map(calculateBenefit).sort(sortByBenefit));
Line48 ==
    /\ pc = "l48"
    /\ LET mapped == ArrayMap("calculateBenefit", items)
       IN  \E sorted \in ArraySort("sortByBenefit", mapped.elems) :
              /\ ranked' = sorted
              /\ combinations' = sortedCombinations(sorted)
              /\ items' = IF mapped.ref = "receiver" THEN sorted ELSE items
    /\ pc' = "l49"
    /\ UNCHANGED <<maximumWeight, results, winner, returned, thrown>>

\* const results = combinations.map(calculateTotalBenefit)
\*     .filter(filterByWeight(maximumWeight)).sort(sortByTotalBenefit);
Line49 ==
    /\ pc = "l49"
    /\ LET mapped == ArrayMap("calculateTotalBenefit", combinations)
           filtered == ArrayFilter(maximumWeight, mapped.elems)
       IN  /\ results' \in ArraySortFirst("sortByTotalBenefit", filtered)
           /\ combinations' = IF mapped.ref = "receiver" THEN mapped.elems ELSE combinations
    /\ pc' = "l50"
    /\ UNCHANGED <<items, maximumWeight, ranked, winner, returned, thrown>>

\* const winner = results[0].slice(2).map(item => item.slice(1));
\* return winner;
Line50 ==
    /\ pc = "l50"
    /\ Len(results) > 0
    /\ winner' = Unwrap(results[1])
    /\ returned' = winner'
    /\ pc' = "done"
    /\ UNCHANGED <<items, maximumWeight, ranked, combinations, results, thrown>>

\* Line 50 when results is empty: results[0] is undefined and the call of
\* slice on it throws a TypeError out of knapsack.
Line50Throw ==
    /\ pc = "l50"
    /\ Len(results) = 0
    /\ thrown' = "TypeError"
    /\ pc' = "thrown"
    /\ UNCHANGED <<items, maximumWeight, ranked, combinations, results, winner, returned>>

Next == Line48 \/ Line49 \/ Line50 \/ Line50Throw

Spec == Init /\ [][Next]_vars

\* ---------------------------------------------------------------- oracle
\* Quantities recomputed from the (weight, benefit) pairs alone, in units of
\* 1 / Denom, without the pipeline's own arithmetic.
PairWeight(p) == p[1].v

PairBenefit(p) == p[2].v

\* benefit / weight of a pair whose weight is positive
PairRatio(p) == (p[2].v * Denom) \div p[1].v

RECURSIVE SeqWeight(_)
SeqWeight(a) == IF Len(a) = 0 THEN 0 ELSE PairWeight(a[1]) + SeqWeight(Tail(a))

RECURSIVE SeqBenefit(_)
SeqBenefit(a) == IF Len(a) = 0 THEN 0 ELSE PairBenefit(a[1]) + SeqBenefit(Tail(a))

RECURSIVE SeqRatio(_)
SeqRatio(a) == IF Len(a) = 0 THEN 0 ELSE PairRatio(a[1]) + SeqRatio(Tail(a))

\* The subsequence of a at the positions S.
RECURSIVE SubAt(_, _, _)
SubAt(a, S, i) ==
    IF i > Len(a) THEN <<>>
    ELSE (IF i \in S THEN <<a[i]>> ELSE <<>>) \o SubAt(a, S, i + 1)

Restrict(a, S) == SubAt(a, S, 1)

\* The annotated items with the ratio stripped.
StripRatio(a) == [i \in 1..Len(a) |-> SubSeq(a[i], 2, 3)]

RECURSIVE Pow2(_)
Pow2(n) == IF n = 0 THEN 1 ELSE 2 * Pow2(n - 1)

Min(S) == CHOOSE x \in S : \A y \in S : x <= y

Count(a, x) == Cardinality({i \in 1..Len(a) : a[i] = x})

ValidItems == \A i \in 1..Len(items) : Len(items[i]) = 2 /\ items[i][1].v > 0

InvalidItemPresent == \E i \in 1..Len(items) : items[i][1].v <= 0

CapacityGiven == maximumWeight # Undefined

NonNegativeCapacity == maximumWeight = Undefined \/ maximumWeight.v >= 0

\* The pairs a fit the capacity.
Fits(a) == maximumWeight = Undefined \/ SeqWeight(a) <= maximumWeight.v

\* The position sets of a whose members fit the capacity, and among them
\* those of the greatest sum of ratios.
FeasibleSets(a) == {S \in SUBSET (1..Len(a)) : Fits(Restrict(a, S))}

OptimalSets(a) ==
    {S \in FeasibleSets(a) :
        \A T \in FeasibleSets(a) : SeqRatio(Restrict(a, S)) >= SeqRatio(Restrict(a, T))}

\* The position set of the k-th of the 2^n subsets in include-before-exclude
\* order: position i is a member iff bit n - i of 2^n - k is set.
PosSet(k, n) == {i \in 1..n : ((Pow2(n) - k) \div Pow2(n - i)) % 2 = 1}

\* The bitmask of a position set: bit i - 1 is set iff the i-th element of
\* the ranked sequence is a member.
RECURSIVE Bitmask(_)
Bitmask(S) == IF S = {} THEN 0 ELSE Pow2(Min(S) - 1) + Bitmask(S \ {Min(S)})

\* ---------------------------------------------------------------- claims

\* C1 (optimality): for items of positive weight and a capacity >= 0 or
\* omitted, the returned subset's sum of benefit / weight ratios is >= that
\* of every subset of the items whose total weight is within the capacity.
C1_Optimality ==
    (pc = "done" /\ ValidItems /\ NonNegativeCapacity) =>
        \A S \in FeasibleSets(items) : SeqRatio(returned) >= SeqRatio(Restrict(items, S))

\* The capacity excluded some subset, and a feasible subset of a smaller sum
\* of ratios has a greater total benefit than the returned one.
C1_Witness ==
    /\ pc = "done" /\ ValidItems /\ CapacityGiven /\ maximumWeight.v >= 0
    /\ SeqWeight(items) > maximumWeight.v
    /\ Len(returned) > 0
    /\ \E S \in FeasibleSets(items) :
          /\ SeqRatio(Restrict(items, S)) < SeqRatio(returned)
          /\ SeqBenefit(Restrict(items, S)) > SeqBenefit(returned)

\* C2 (feasibility): for items of positive weight and a capacity >= 0 the
\* call does not throw, the filtered list is not empty when results[0] is
\* read, and the returned subset's total weight is <= the capacity.
C2_Feasibility ==
    (ValidItems /\ CapacityGiven /\ maximumWeight.v >= 0) =>
        /\ pc # "thrown"
        /\ thrown = "none"
        /\ (pc = "l50" => Len(results) > 0)
        /\ (pc = "done" => SeqWeight(returned) <= maximumWeight.v)

\* A result was returned although the whole collection does not fit.
C2_Witness ==
    /\ pc = "done" /\ ValidItems /\ CapacityGiven /\ maximumWeight.v >= 0
    /\ SeqWeight(items) > maximumWeight.v
    /\ \E i \in 1..Len(items) : PairWeight(items[i]) <= maximumWeight.v

RankedCollection == <<Pair(3, 5), Pair(4, 5), Pair(1, 1), Pair(3, 2), Pair(4, 2), Pair(2, 1)>>

C5_NoFeasibleSolution ==
    (ValidItems /\ CapacityGiven /\ maximumWeight.v < 0 /\ pc \in {"done", "thrown"}) =>
        (pc = "thrown" /\ thrown = "NoFeasibleSolution")

\* C6 (invalid item): when an item's weight is zero or negative, the
\* annotation step fails with InvalidItem before any subset is enumerated.
C6_InvalidItem ==
    InvalidItemPresent => (pc = "l48" \/ (pc = "thrown" /\ thrown = "InvalidItem"))

\* The returned pairs are the members of a position set S of the ranked sequence.
ReturnedIs(S) == returned = Restrict(StripRatio(ranked), S)

\* C7 as stated (tie-break): among the feasible subsets of the greatest sum
\* of ratios the one of the smallest bitmask is returned.
C7_Original ==
    (pc = "done" /\ ValidItems /\ NonNegativeCapacity) =>
        \E S \in OptimalSets(StripRatio(ranked)) :
            /\ ReturnedIs(S)
            /\ \A T \in OptimalSets(StripRatio(ranked)) : Bitmask(S) <= Bitmask(T)

\* C7 as amended: among the feasible subsets of the greatest sum of ratios
\* the one appended first by sortedCombinations is returned: the one that
\* contains the earliest ranked position on which it differs from any other.
C7_FirstAppended ==
    (pc = "done" /\ ValidItems /\ NonNegativeCapacity) =>
        \E S \in OptimalSets(StripRatio(ranked)) :
            /\ ReturnedIs(S)
            /\ \A T \in OptimalSets(StripRatio(ranked)) :
                  T # S => Min((S \ T) \cup (T \ S)) \in S

\* Several feasible subsets share the greatest sum of ratios.
C7_Witness ==
    /\ pc = "done" /\ ValidItems /\ NonNegativeCapacity
    /\ Cardinality(OptimalSets(StripRatio(ranked))) >= 2
    /\ Cardinality({Restrict(ranked, S) : S \in OptimalSets(StripRatio(ranked))}) >= 2

\* C8 (cardinality): sortedCombinations returns 2^N subsets, one for each
\* set of positions of its input, each in the input's relative order.
C8_Cardinality ==
    pc = "l49" =>
        LET n == Len(ranked)
        IN  /\ Len(combinations) = Pow2(n)
            /\ {PosSet(k, n) : k \in 1..Len(combinations)} = SUBSET (1..n)
            /\ \A k \in 1..Len(combinations) :
                  combinations[k] = Restrict(ranked, PosSet(k, n))

\* The enumerator ran on two or more elements.
C8_Witness == pc = "l49" /\ Len(ranked) >= 2 /\ Len(combinations) >= 4

\* C9 (no mutation of the input): no step of knapsack changes the caller's
\* item collection.
C9_InputUnchanged == [][items' = items]_vars

\* The call returned for an input that was not in ranked order.
C9_Witness == pc = "done" /\ Len(items) >= 2 /\ StripRatio(ranked) # items

\* C10 (emission order): of two subsets the one that contains the earliest
\* position on which they differ is appended first; the full sequence is
\* appended first and the empty subset last.
C10_EmissionOrder ==
    pc = "l49" =>
        LET n == Len(ranked)
            m == Len(combinations)
        IN  /\ m >= 1
            /\ combinations[1] = ranked
            /\ combinations[m] = <<>>
            /\ \A j, k \in 1..m :
                  j < k =>
                     LET S == PosSet(j, n)
                         T == PosSet(k, n)
                     IN  /\ combinations[j] = Restrict(ranked, S)
                         /\ combinations[k] = Restrict(ranked, T)
                         /\ S # T
                         /\ Min((S \ T) \cup (T \ S)) \in S

\* The enumerator ran on elements that are all different.
C10_Witness ==
    /\ pc = "l49" /\ Len(ranked) >= 2
    /\ \A i, j \in 1..Len(ranked) : i # j => ranked[i] # ranked[j]

====
